---- MODULE Spec2Model ----
(***************************************************************************)
(* Model of xml_dict (src/src/lib.rs): parse_xml folds the tokenizer's     *)
(* event stream into a serde_json Value; value_to_xml / dict_to_xml_str    *)
(* turn a Value into a sequence of writer events.                          *)
(*                                                                         *)
(* Strings are sequences of one-character strings, so that prefix tests,   *)
(* prefix stripping, trimming and key ordering are computed, not assumed.  *)
(***************************************************************************)
EXTENDS Integers, Sequences, FiniteSets, TLC

VARIABLES
    stack,          \* parse_xml: Vec<(name, current_value, current_attrs)>
    root,           \* parse_xml: Option<Value>
    current_value,  \* parse_xml: Option<Value>
    current_attrs,  \* parse_xml: HashMap<String, Value>
    pc,             \* "reading" while the event loop runs, "done" after return
    result,         \* parse_xml's return value
    gstack,         \* history: what the tokenizer delivered for every open element
    last,           \* history: the element closed by the latest End event
    count,          \* history: Start, Empty and Text events delivered so far
    fin,            \* history: the event that ended the loop, and the elements then open
    native,         \* dict_to_xml_str: the caller's dict
    value,          \* dict_to_xml_str: the Value built from the caller's dict
    out,            \* the writer: the events written so far, in order
    todo,           \* value_to_xml: the calls and writes still to come, next first
    epc,            \* "convert", "start", "emit" while elements are written, "done"
                    \* after return, "failed" after return with a conversion error
    eresult,        \* dict_to_xml_str's return value
    inp             \* the reader: the events not yet delivered to parse_xml

decVars == <<stack, root, current_value, current_attrs, pc, result, gstack, last, count, fin>>
encVars == <<native, value, out, todo, epc, eresult>>
vars == <<stack, root, current_value, current_attrs, pc, result, gstack, last, count, fin,
          native, value, out, todo, epc, eresult, inp>>

---------------------------------------------------------------------------
(* Bounds of the exploration *)
MaxEvents == 4      \* Start, Empty and Text events the tokenizer delivers per document

---------------------------------------------------------------------------
(* Strings *)

\* Byte order of the characters used, as String's Ord compares them.
CharOrder == <<" ", "#", "5", "@", "c", "d", "e", "h", "i", "k", "t", "x">>

CharRank(ch) == CHOOSE i \in 1..Len(CharOrder) : CharOrder[i] = ch

RECURSIVE StrLess(_, _)
StrLess(a, b) ==
    IF b = <<>> THEN FALSE
    ELSE IF a = <<>> THEN TRUE
    ELSE IF a[1] = b[1] THEN StrLess(Tail(a), Tail(b))
    ELSE CharRank(a[1]) < CharRank(b[1])

IsWhitespace(ch) == ch = " "

RECURSIVE TrimStart(_)
TrimStart(s) ==
    IF s # <<>> /\ IsWhitespace(s[1]) THEN TrimStart(Tail(s)) ELSE s

RECURSIVE TrimEnd(_)
TrimEnd(s) ==
    IF s # <<>> /\ IsWhitespace(s[Len(s)]) THEN TrimEnd(SubSeq(s, 1, Len(s) - 1)) ELSE s

Trim(s) == TrimEnd(TrimStart(s))

TextKey == <<"#", "t", "e", "x", "t">>

---------------------------------------------------------------------------
(* serde_json::Value, with Option's None as one more tag *)

None == [k |-> "None"]
Null == [k |-> "Null"]
Bool(b) == [k |-> "Bool", b |-> b]
Number(n) == [k |-> "Number", n |-> n]
String(s) == [k |-> "String", s |-> s]
Array(a) == [k |-> "Array", a |-> a]
Object(m) == [k |-> "Object", m |-> m]

(* serde_json::Map: entries <<key, value>> kept in key order, its default
   (BTreeMap) representation; iterating a map is reading the sequence. *)
MapNew == <<>>

MapKeys(m) == {m[i][1] : i \in 1..Len(m)}

MapContains(m, key) == key \in MapKeys(m)

MapGet(m, key) ==
    IF MapContains(m, key)
    THEN m[CHOOSE i \in 1..Len(m) : m[i][1] = key][2]
    ELSE None

MapInsert(m, key, v) ==
    SelectSeq(m, LAMBDA e : StrLess(e[1], key))
        \o << <<key, v>> >>
        \o SelectSeq(m, LAMBDA e : StrLess(key, e[1]))

---------------------------------------------------------------------------
(* Results *)
Ok(v) == [kind |-> "Ok", val |-> v]
Err(msg) == [kind |-> "Err", msg |-> msg]
Pending == [kind |-> "Pending"]

---------------------------------------------------------------------------
(* The native values of the caller, pyobject_to_value and value_to_pyobject *)

\* A float is finite with value n, or one of nan and the infinities.
PyNone == [t |-> "none"]
PyBool(b) == [t |-> "bool", b |-> b]
PyInt(n) == [t |-> "int", n |-> n]
PyFloat(n) == [t |-> "float", finite |-> TRUE, n |-> n]
PyNaN == [t |-> "float", finite |-> FALSE, n |-> 0]
PyStr(s) == [t |-> "str", s |-> s]
PyList(items) == [t |-> "list", items |-> items]
PyTuple(items) == [t |-> "tuple", items |-> items]
\* A dict: its entries <<key object, value object>> in iteration order.
PyDict(entries) == [t |-> "dict", entries |-> entries]
PyFunction == [t |-> "function"]

\* obj.extract::<String>() succeeds on a str only.
ExtractString(obj) == IF obj.t = "str" THEN Ok(obj.s) ELSE Err("TypeError")

\* obj.extract::<f64>() converts through the object's float conversion, which
\* a float, an int and a bool (an int of value 0 or 1) all have.
ExtractF64(obj) ==
    IF obj.t = "float" THEN Ok(obj)
    ELSE IF obj.t = "int" THEN Ok(PyFloat(obj.n))
    ELSE IF obj.t = "bool" THEN Ok(PyFloat(IF obj.b THEN 1 ELSE 0))
    ELSE Err("TypeError")

\* obj.extract::<bool>() succeeds on a bool only.
ExtractBool(obj) == IF obj.t = "bool" THEN Ok(obj.b) ELSE Err("TypeError")

\* Value::from(f64): a number when finite, else Null.
ValueFromF64(f) == IF f.finite THEN Number(f.n) ELSE Null

\* A variant of Unsupported that lets the value through as Null.
UnsupportedAsNull(obj) == Ok(Null)

Unsupported(obj) == Err("Unsupported Python type")

RECURSIVE PyobjectToValue(_), ConvertItems(_), ConvertEntries(_)
PyobjectToValue(obj) ==
    IF ExtractString(obj).kind = "Ok" THEN Ok(String(ExtractString(obj).val))
    ELSE IF ExtractF64(obj).kind = "Ok" THEN Ok(ValueFromF64(ExtractF64(obj).val))
    ELSE IF ExtractBool(obj).kind = "Ok" THEN Ok(Bool(ExtractBool(obj).val))
    ELSE IF obj.t = "none" THEN Ok(Null)
    ELSE IF obj.t = "list"
         THEN LET arr == ConvertItems(obj.items)
              IN  IF arr.kind = "Err" THEN arr ELSE Ok(Array(arr.val))
    ELSE IF obj.t = "dict"
         THEN LET map == ConvertEntries(obj.entries)
              IN  IF map.kind = "Err" THEN map ELSE Ok(Object(map.val))
    ELSE Unsupported(obj)

\* The loop over a list: the first failing item ends the conversion.
ConvertItems(items) ==
    IF items = <<>> THEN Ok(<<>>)
    ELSE LET arr == ConvertItems(SubSeq(items, 1, Len(items) - 1))
             item == PyobjectToValue(items[Len(items)])
         IN  IF arr.kind = "Err" THEN arr
             ELSE IF item.kind = "Err" THEN item
             ELSE Ok(Append(arr.val, item.val))

\* The loop over a dict: a key that is no str, or a failing value, ends it.
ConvertEntries(entries) ==
    IF entries = <<>> THEN Ok(MapNew)
    ELSE LET map == ConvertEntries(SubSeq(entries, 1, Len(entries) - 1))
             key == ExtractString(entries[Len(entries)][1])
             v == PyobjectToValue(entries[Len(entries)][2])
         IN  IF map.kind = "Err" THEN map
             ELSE IF key.kind = "Err" THEN key
             ELSE IF v.kind = "Err" THEN v
             ELSE Ok(MapInsert(map.val, key.val, v.val))

RECURSIVE ValueToPyobject(_)
ValueToPyobject(v) ==
    CASE v.k = "Null" -> PyNone
      [] v.k = "Bool" -> PyBool(v.b)
      [] v.k = "Number" -> PyFloat(v.n)
      [] v.k = "String" -> PyStr(v.s)
      [] v.k = "Array" -> PyList([i \in 1..Len(v.a) |-> ValueToPyobject(v.a[i])])
      [] v.k = "Object" ->
            PyDict([i \in 1..Len(v.m) |-> <<PyStr(v.m[i][1]), ValueToPyobject(v.m[i][2])>>])

---------------------------------------------------------------------------
(* The tokenizer's events (quick_xml::events::Event as parse_xml reads it) *)

\* One attribute of a start tag: wf is whether the attribute iterator yields
\* Ok for it, uok whether unescape_value succeeds, val the unescaped value.
Attr(key, val) == [wf |-> TRUE, key |-> key, uok |-> TRUE, val |-> val]
BadAttr == [wf |-> FALSE, key |-> <<>>, uok |-> FALSE, val |-> <<>>]
BadValueAttr(key) == [wf |-> TRUE, key |-> key, uok |-> FALSE, val |-> <<>>]

\* The payload of a Text event: ok is whether unescape succeeds, s its result.
TextOk(s) == [ok |-> TRUE, s |-> s]
TextBad == [ok |-> FALSE, s |-> <<>>]

Event(t, name, attrs, text) == [t |-> t, name |-> name, attrs |-> attrs, text |-> text]
StartEv(name, attrs) == Event("Start", name, attrs, TextBad)
EmptyEv(name, attrs) == Event("Empty", name, attrs, TextBad)
EndEv(name) == Event("End", name, <<>>, TextBad)
TextEv(text) == Event("Text", <<>>, <<>>, text)
MiscEv(t) == Event(t, <<>>, <<>>, TextBad)

\* The tags of the explored documents: <c>, <d> and
\* <d i="5" (a malformed attribute) k="(a value that does not unescape)">.
SomeAttrs == <<Attr(<<"i">>, <<"5">>), BadAttr, BadValueAttr(<<"k">>)>>
StartTags == {StartEv(<<"c">>, <<>>), StartEv(<<"d">>, <<>>), StartEv(<<"d">>, SomeAttrs)}
EmptyTags == {EmptyEv(<<"c">>, <<>>), EmptyEv(<<"d">>, SomeAttrs)}
TextPayloads == {TextOk(<<"h">>), TextOk(<<"x">>), TextOk(<<" ">>), TextBad}
\* Event kinds that only the catch-all arm of the match sees.
MiscKinds == {"Comment", "CData", "Decl", "PI", "DocType"}

---------------------------------------------------------------------------
(* parse_xml *)

UnwrapOrDefault(ok, s) == IF ok THEN s ELSE <<>>

AttrKey(key) == <<"@">> \o key

RECURSIVE ParseAttrs(_)
ParseAttrs(tokens) ==
    IF tokens = <<>> THEN MapNew
    ELSE LET a == tokens[Len(tokens)]
             init == ParseAttrs(SubSeq(tokens, 1, Len(tokens) - 1))
         IN  IF a.wf
             THEN MapInsert(init, AttrKey(a.key), String(UnwrapOrDefault(a.uok, a.val)))
             ELSE init

\* A variant of IsBlank that takes no text for whitespace.
IsBlankNever(text) == FALSE

IsBlank(text) == Trim(text) = <<>>

\* The map the closed element is built from (match current_value.take()).
ResolveObj(cv) ==
    IF cv.k = "Object" THEN cv.m
    ELSE IF cv.k = "None" THEN MapNew
    ELSE MapInsert(MapNew, TextKey, cv)

\* A variant of MergeAttrs that forgets the pending attributes.
MergeAttrsDropped(obj, attrs) == obj

RECURSIVE MergeAttrs(_, _)
MergeAttrs(obj, attrs) ==
    IF attrs = <<>> THEN obj
    ELSE MergeAttrs(MapInsert(obj, attrs[1][1], attrs[1][2]), Tail(attrs))

\* Insertion of the closed value into the parent map (duplicate keys become arrays).
InsertChild(parent, name, new_value) ==
    IF MapContains(parent, name)
    THEN LET existing == MapGet(parent, name)
         IN  IF existing.k = "Array"
             THEN MapInsert(parent, name, Array(Append(existing.a, new_value)))
             ELSE MapInsert(parent, name, Array(<<existing, new_value>>))
    ELSE MapInsert(parent, name, new_value)

ClosedValue(cv, attrs) == Object(MergeAttrs(ResolveObj(cv), attrs))

ParseResult(r) == IF r = None THEN Err("Empty XML document") ELSE Ok(r)

\* A variant of ErrorResult that falls back on whatever root was captured.
ErrorResultBestEffort(r) == IF r = None THEN Err("Error at position") ELSE Ok(r)

ErrorResult(r) == Err("Error at position")

(* history bookkeeping *)
\* A frame records, for an open element (the first frame: for the document),
\* the tag and its content so far, in document order: the unescaped payload of
\* each Text event, and for each child element its tag, whether it was an
\* Empty event, and the value its End event built.
\* pattrs and pvalue are the attribute set and the value that were current when
\* the start tag was delivered.
GFrame(name, attrs) ==
    [name |-> name, attrs |-> attrs, content |-> <<>>,
     pattrs |-> current_attrs, pvalue |-> current_value]
GText(s) == [t |-> "text", name |-> <<>>, attrs |-> <<>>, val |-> None, empty |-> FALSE, s |-> s]
GKid(name, attrs, val, empty) ==
    [t |-> "elem", name |-> name, attrs |-> attrs, val |-> val, empty |-> empty, s |-> <<>>]
GTop == gstack[Len(gstack)]
GAdd(gs, item) == [gs EXCEPT ![Len(gs)].content = Append(@, item)]
NoLast == [closed |-> FALSE, name |-> <<>>, attrs |-> <<>>, content |-> <<>>,
           val |-> None, depth |-> 0]

OnStart(e) ==
    /\ stack' = Append(stack, [name |-> e.name, value |-> current_value, attrs |-> current_attrs])
    /\ current_attrs' = ParseAttrs(e.attrs)
    /\ current_value' = Object(MapNew)
    /\ gstack' = Append(gstack, GFrame(e.name, e.attrs))
    /\ count' = count + 1
    /\ UNCHANGED <<root, pc, result, last, fin>>

OnText(e) ==
    LET text == UnwrapOrDefault(e.text.ok, e.text.s)
    IN  /\ current_value' = IF ~IsBlank(text) THEN String(text) ELSE current_value
        /\ gstack' = GAdd(gstack, GText(text))
        /\ count' = count + 1
        /\ UNCHANGED <<stack, root, current_attrs, pc, result, last, fin>>

\* A variant of OnEnd that leaves the closed element's attributes current.
OnEndKeepAttrs ==
    LET top == stack[Len(stack)]
        new_value == ClosedValue(current_value, current_attrs)
        parent_val == top.value
        g == GTop
        grest == SubSeq(gstack, 1, Len(gstack) - 1)
    IN  /\ stack' = SubSeq(stack, 1, Len(stack) - 1)
        /\ current_attrs' = current_attrs
        /\ IF parent_val.k = "Object"
           THEN /\ current_value' = Object(InsertChild(parent_val.m, top.name, new_value))
                /\ root' = root
           ELSE /\ current_value' = parent_val
                /\ root' = new_value
        /\ gstack' = GAdd(grest, GKid(g.name, g.attrs, new_value, FALSE))
        /\ last' = [closed |-> TRUE, name |-> top.name, attrs |-> g.attrs,
                    content |-> g.content, val |-> new_value, depth |-> Len(stack) - 1]
        /\ UNCHANGED <<pc, result, count, fin>>

OnEnd ==
    LET top == stack[Len(stack)]
        new_value == ClosedValue(current_value, current_attrs)
        parent_val == top.value
        g == GTop
        grest == SubSeq(gstack, 1, Len(gstack) - 1)
    IN  /\ stack' = SubSeq(stack, 1, Len(stack) - 1)
        /\ current_attrs' = top.attrs
        /\ IF parent_val.k = "Object"
           THEN /\ current_value' = Object(InsertChild(parent_val.m, top.name, new_value))
                /\ root' = root
           ELSE /\ current_value' = parent_val
                /\ root' = new_value
        /\ gstack' = GAdd(grest, GKid(g.name, g.attrs, new_value, FALSE))
        /\ last' = [closed |-> TRUE, name |-> top.name, attrs |-> g.attrs,
                    content |-> g.content, val |-> new_value, depth |-> Len(stack) - 1]
        /\ UNCHANGED <<pc, result, count, fin>>

\* The catch-all arm: Empty, Comment, CData, Decl, PI, DocType change nothing.
OnOther(e) ==
    /\ gstack' = IF e.t = "Empty" THEN GAdd(gstack, GKid(e.name, e.attrs, None, TRUE))
                 ELSE gstack
    /\ count' = IF e.t = "Empty" THEN count + 1 ELSE count
    /\ UNCHANGED <<stack, root, current_value, current_attrs, pc, result, last, fin>>

\* parse_xml returns: its locals other than the returned root are dropped.
Return(res, event) ==
    /\ pc' = "done"
    /\ result' = res
    /\ stack' = <<>>
    /\ current_value' = None
    /\ current_attrs' = MapNew
    /\ gstack' = <<gstack[1]>>
    /\ fin' = [event |-> event, open |-> Len(stack)]
    /\ UNCHANGED <<root, last, count>>

OnEof == Return(ParseResult(root), "Eof")

OnErr == Return(ErrorResult(root), "Err")

DecInit ==
    /\ stack = <<>>
    /\ root = None
    /\ current_value = None
    /\ current_attrs = MapNew
    /\ result = Pending
    /\ gstack = <<GFrame(<<>>, <<>>)>>
    /\ last = NoLast
    /\ count = 0
    /\ fin = [event |-> "", open |-> 0]

(* The event loop fed by the tokenizer on an arbitrary input. An End event is
   delivered only for an open element: the reader reports an unmatched or
   mismatched end tag as an error. End of input is delivered as Eof also
   while elements are open: the reader does not report unclosed elements. *)
DecStart ==
    /\ pc = "reading"
    /\ count < MaxEvents
    /\ \E e \in StartTags : OnStart(e)
    /\ UNCHANGED <<encVars, inp>>

DecText ==
    /\ pc = "reading"
    /\ count < MaxEvents
    /\ \E t \in TextPayloads : OnText(TextEv(t))
    /\ UNCHANGED <<encVars, inp>>

DecEnd ==
    /\ pc = "reading"
    /\ stack # <<>>
    /\ OnEnd
    /\ UNCHANGED <<encVars, inp>>

DecOther ==
    /\ pc = "reading"
    /\ \/ /\ count < MaxEvents
          /\ \E e \in EmptyTags : OnOther(e)
       \/ \E t \in MiscKinds : OnOther(MiscEv(t))
    /\ UNCHANGED <<encVars, inp>>

DecEof ==
    /\ pc = "reading"
    /\ OnEof
    /\ UNCHANGED <<encVars, inp>>

DecErr ==
    /\ pc = "reading"
    /\ OnErr
    /\ UNCHANGED <<encVars, inp>>

EncIdle ==
    /\ native = PyNone
    /\ value = Null
    /\ out = <<>>
    /\ todo = <<>>
    /\ epc = "idle"
    /\ eresult = Pending
    /\ inp = <<>>

Init == DecInit /\ pc = "reading" /\ EncIdle

Next ==
    \/ DecStart
    \/ DecText
    \/ DecEnd
    \/ DecOther
    \/ DecEof
    \/ DecErr

Spec == Init /\ [][Next]_vars

---------------------------------------------------------------------------
(* value_to_xml and dict_to_xml_str *)

StartsWithAt(key) == key # <<>> /\ key[1] = "@"

RECURSIVE TrimStartMatchesAt(_)
TrimStartMatchesAt(key) ==
    IF key # <<>> /\ key[1] = "@" THEN TrimStartMatchesAt(Tail(key)) ELSE key

AsStrOrDefault(v) == IF v.k = "String" THEN v.s ELSE <<>>

ObjEntries(v) == IF v.k = "Object" THEN v.m ELSE <<>>

\* The three parts value_to_xml splits a value into.
PartAttributes(v) ==
    LET es == SelectSeq(ObjEntries(v), LAMBDA e : StartsWithAt(e[1]))
    IN  [i \in 1..Len(es) |-> Attr(TrimStartMatchesAt(es[i][1]), AsStrOrDefault(es[i][2]))]

PartText(v) ==
    LET es == SelectSeq(ObjEntries(v), LAMBDA e : ~StartsWithAt(e[1]) /\ e[1] = TextKey)
    IN  IF es = <<>> THEN None ELSE String(AsStrOrDefault(es[Len(es)][2]))

PartChildren(v) ==
    SelectSeq(ObjEntries(v), LAMBDA e : ~StartsWithAt(e[1]) /\ e[1] # TextKey)

\* What is still to do: a call of value_to_xml, or a write of the running call.
EmitTask(name, v) == [op |-> "emit", name |-> name, value |-> v]
TextTask(s) == [op |-> "text", name |-> <<>>, value |-> String(s)]
EndTask(name) == [op |-> "end", name |-> name, value |-> None]

\* A variant of ChildTasks that makes one call per child, a list included.
ChildTasksNoExpand(children) ==
    [i \in 1..Len(children) |-> EmitTask(children[i][1], children[i][2])]

\* The calls the loop over children makes: one per list entry, else one per child.
RECURSIVE ChildTasks(_)
ChildTasks(children) ==
    IF children = <<>> THEN <<>>
    ELSE LET name == children[1][1]
             v == children[1][2]
             calls == IF v.k = "Array"
                      THEN [i \in 1..Len(v.a) |-> EmitTask(name, v.a[i])]
                      ELSE <<EmitTask(name, v)>>
         IN  calls \o ChildTasks(Tail(children))

\* A variant of IsEmptyElement that never takes the self-closing branch.
IsEmptyElementNever(v) == FALSE

IsEmptyElement(v) == PartChildren(v) = <<>> /\ PartText(v) = None

\* The write value_to_xml makes first, and what the call goes on to do.
FirstWrite(name, v) ==
    IF IsEmptyElement(v) THEN EmptyEv(name, PartAttributes(v))
    ELSE StartEv(name, PartAttributes(v))

\* A variant of RestOfCall that forgets the end tag.
RestOfCallNoEnd(name, v) ==
    IF IsEmptyElement(v) THEN <<>>
    ELSE (IF PartText(v) # None THEN <<TextTask(PartText(v).s)>> ELSE <<>>)
            \o ChildTasks(PartChildren(v))

RestOfCall(name, v) ==
    IF IsEmptyElement(v) THEN <<>>
    ELSE (IF PartText(v) # None THEN <<TextTask(PartText(v).s)>> ELSE <<>>)
            \o ChildTasks(PartChildren(v))
            \o <<EndTask(name)>>

DeclEv == Event("Decl", <<>>,
                <<Attr(<<"v", "e", "r", "s", "i", "o", "n">>, <<"1", ".", "0">>),
                  Attr(<<"e", "n", "c", "o", "d", "i", "n", "g">>, <<"u", "t", "f", "-", "8">>)>>,
                TextBad)

\* A variant of RootTasks that writes a single root element only.
RootTasksFirstOnly(v) ==
    IF ObjEntries(v) = <<>> THEN <<>>
    ELSE <<EmitTask(ObjEntries(v)[1][1], ObjEntries(v)[1][2])>>

\* The calls dict_to_xml_str makes: one per entry of the root map.
RootTasks(v) ==
    LET es == ObjEntries(v)
    IN  [i \in 1..Len(es) |-> EmitTask(es[i][1], es[i][2])]

(* The values given to the encoder *)
RECURSIVE FromPairs(_)
FromPairs(pairs) ==
    IF pairs = <<>> THEN MapNew
    ELSE MapInsert(FromPairs(SubSeq(pairs, 1, Len(pairs) - 1)),
                   pairs[Len(pairs)][1], pairs[Len(pairs)][2])

KeyC == <<"c">>
KeyD == <<"d">>
KeyAtI == <<"@", "i">>
KeyAtAtK == <<"@", "@", "k">>
StrH == String(<<"h">>)
StrX == String(<<"x">>)
Str5 == String(<<"5">>)

Scalars == {StrH, Null, Bool(TRUE), Number(5)}
AttrChoices == { <<>>,
                 << <<KeyAtI, Str5>> >>,
                 << <<KeyAtI, Str5>>, <<KeyAtAtK, Number(5)>> >> }
TextChoices == { <<>>, << <<TextKey, StrX>> >>, << <<TextKey, Null>> >> }
LeafValues == Scalars \cup {Object(FromPairs(a \o t)) : a \in AttrChoices, t \in TextChoices}
ListValues == { Array(<<>>),
                Array(<<StrH, StrX>>),
                Array(<<Object(MapNew), Object(FromPairs(<< <<KeyAtI, Str5>>, <<TextKey, StrX>> >>))>>),
                Array(<<StrH, Array(<<StrX>>), Null>>) }
ChildChoices ==
    {<<>>}
    \cup {<< <<KeyC, v>> >> : v \in LeafValues \cup ListValues}
    \cup {<< <<KeyD, v>>, <<KeyC, w>> >> : v \in {StrH, Object(MapNew)},
                                          w \in {StrX, Array(<<StrH, StrX>>)}}
ElemValues ==
    LeafValues \cup ListValues
    \cup {Object(FromPairs(a \o t \o ch)) :
            a \in AttrChoices, t \in TextChoices, ch \in ChildChoices}
RootValues ==
    {Object(MapNew)}
    \cup {Object(FromPairs(<< <<KeyD, e>> >>)) : e \in ElemValues}
    \cup {Object(FromPairs(<< <<KeyD, e>>, <<KeyC, f>> >>)) :
            e \in {StrH, Object(MapNew)},
            f \in {Object(FromPairs(<< <<KeyAtI, Str5>>, <<TextKey, StrX>> >>)),
                   Object(FromPairs(<< <<KeyC, StrH>> >>))}}

(* The dicts given to dict_to_xml_str: the native form of every root value,
   dicts holding an int, a nan and a bool inside a list, and dicts that hold, at
   some depth, a function, a tuple or a key that is no str. *)
PyD == PyStr(KeyD)
PyC == PyStr(KeyC)
PyH == PyStr(<<"h">>)
UnsupportedRoots ==
    { PyDict(<< <<PyD, PyFunction>> >>),
      PyDict(<< <<PyD, PyTuple(<<PyH>>)>> >>),
      PyDict(<< <<PyD, PyDict(<< <<PyC, PyFunction>> >>)>> >>),
      PyDict(<< <<PyD, PyDict(<< <<PyStr(KeyAtI), PyFunction>> >>)>> >>),
      PyDict(<< <<PyD, PyList(<<PyH, PyFunction>>)>> >>),
      PyDict(<< <<PyD, PyList(<<PyDict(<< <<PyC, PyList(<<PyFunction>>)>> >>)>>)>> >>),
      PyDict(<< <<PyC, PyH>>, <<PyD, PyFunction>> >>),
      PyDict(<< <<PyInt(5), PyH>> >>),
      PyDict(<< <<PyD, PyDict(<< <<PyInt(5), PyH>> >>)>> >>),
      PyDict(<< <<PyD, PyDict(<< <<PyC, PyH>>, <<PyNone, PyH>> >>)>> >>) }
NativeRoots ==
    {ValueToPyobject(v) : v \in RootValues}
    \cup { PyDict(<< <<PyD, PyInt(5)>> >>),
           PyDict(<< <<PyD, PyNaN>> >>),
           PyDict(<< <<PyD, PyList(<<PyBool(FALSE), PyNone>>)>> >>) }
    \cup UnsupportedRoots

EncInit ==
    /\ native \in NativeRoots
    /\ value = Null
    /\ out = <<>>
    /\ todo = <<>>
    /\ epc = "convert"
    /\ eresult = Pending
    /\ inp = <<>>

\* dict_to_xml_str converts its argument first: a failure is returned at once.
EncConvert ==
    /\ epc = "convert"
    /\ LET converted == PyobjectToValue(native)
       IN  IF converted.kind = "Ok"
           THEN /\ value' = converted.val
                /\ epc' = "start"
                /\ eresult' = eresult
           ELSE /\ value' = value
                /\ epc' = "failed"
                /\ eresult' = converted
    /\ UNCHANGED <<native, out, todo, inp, decVars>>

\* dict_to_xml_str up to its loop: the declaration is written.
EncDecl ==
    /\ epc = "start"
    /\ out' = Append(out, DeclEv)
    /\ todo' = RootTasks(value)
    /\ epc' = "emit"
    /\ UNCHANGED <<native, value, eresult, inp, decVars>>

\* A call of value_to_xml up to its first write.
EncEmit ==
    /\ epc = "emit"
    /\ todo # <<>>
    /\ Head(todo).op = "emit"
    /\ out' = Append(out, FirstWrite(Head(todo).name, Head(todo).value))
    /\ todo' = RestOfCall(Head(todo).name, Head(todo).value) \o Tail(todo)
    /\ UNCHANGED <<native, value, epc, eresult, inp, decVars>>

EncText ==
    /\ epc = "emit"
    /\ todo # <<>>
    /\ Head(todo).op = "text"
    /\ out' = Append(out, TextEv(TextOk(Head(todo).value.s)))
    /\ todo' = Tail(todo)
    /\ UNCHANGED <<native, value, epc, eresult, inp, decVars>>

EncEnd ==
    /\ epc = "emit"
    /\ todo # <<>>
    /\ Head(todo).op = "end"
    /\ out' = Append(out, EndEv(Head(todo).name))
    /\ todo' = Tail(todo)
    /\ UNCHANGED <<native, value, epc, eresult, inp, decVars>>

\* dict_to_xml_str returns the written text.
EncReturn ==
    /\ epc = "emit"
    /\ todo = <<>>
    /\ epc' = "done"
    /\ eresult' = Ok(out)
    /\ UNCHANGED <<native, value, out, todo, inp, decVars>>

EncNext ==
    \/ EncConvert
    \/ EncDecl
    \/ EncEmit
    \/ EncText
    \/ EncEnd
    \/ EncReturn

InitEnc == EncInit /\ DecInit /\ pc = "idle"

SpecEnc == InitEnc /\ [][EncNext]_vars

\* dict_to_xml_str is one sequential call: it takes its next step until it returns.
SpecEncLive == InitEnc /\ [][EncNext]_vars /\ WF_vars(EncNext)

---------------------------------------------------------------------------
(* xml_str_to_dict applied to the text dict_to_xml_str returned *)

\* What the reader, with trim_text(true), delivers for what the writer wrote:
\* the writer escapes and the reader's unescape undoes it; text is trimmed and
\* a text that trims to nothing is no event.
ReadBack(e) ==
    IF e.t = "Text"
    THEN IF Trim(e.text.s) = <<>> THEN <<>> ELSE <<TextEv(TextOk(Trim(e.text.s)))>>
    ELSE <<e>>

RECURSIVE Tokenize(_)
Tokenize(written) ==
    IF written = <<>> THEN <<>> ELSE ReadBack(written[1]) \o Tokenize(Tail(written))

RtParse ==
    /\ epc = "done"
    /\ pc = "idle"
    /\ pc' = "reading"
    /\ inp' = Tokenize(eresult.val)
    /\ UNCHANGED <<stack, root, current_value, current_attrs, result, gstack, last, count, fin, encVars>>

Dispatch(e) ==
    CASE e.t = "Start" -> OnStart(e)
      [] e.t = "Text" -> OnText(e)
      [] e.t = "End" -> OnEnd
      [] OTHER -> OnOther(e)

RtRead ==
    /\ pc = "reading"
    /\ inp # <<>>
    /\ Dispatch(Head(inp))
    /\ inp' = Tail(inp)
    /\ UNCHANGED encVars

RtEof ==
    /\ pc = "reading"
    /\ inp = <<>>
    /\ OnEof
    /\ UNCHANGED <<encVars, inp>>

RtNext ==
    \/ EncConvert
    \/ EncDecl
    \/ EncEmit
    \/ EncText
    \/ EncEnd
    \/ EncReturn
    \/ RtParse
    \/ RtRead
    \/ RtEof

InitRT == EncInit /\ DecInit /\ pc = "idle"

SpecRT == InitRT /\ [][RtNext]_vars

---------------------------------------------------------------------------
(* Properties of parse_xml, stated over what the tokenizer delivered *)

HasNonWhitespace(s) == \E i \in 1..Len(s) : s[i] # " "
TextItems(content) == SelectSeq(content, LAMBDA it : it.t = "text")
ElemItems(content) == SelectSeq(content, LAMBDA it : it.t = "elem")
NamedItems(content, name) == SelectSeq(content, LAMBDA it : it.t = "elem" /\ it.name = name)
NonWsTexts(content) == SelectSeq(content, LAMBDA it : it.t = "text" /\ HasNonWhitespace(it.s))
\* The attributes of a tag that are attributes at all, as prefixed-key/value pairs;
\* a value that cannot be unescaped counts as the empty string.
TagAttrs(attrs) ==
    {<< <<"@">> \o attrs[i].key, String(IF attrs[i].uok THEN attrs[i].val ELSE <<>>) >> :
        i \in {j \in 1..Len(attrs) : attrs[j].wf}}
MapPairs(m) == {<<m[i][1], m[i][2]>> : i \in 1..Len(m)}
\* The converted value of a child: what its End event built; for a self-closing
\* child, the map of its attributes.
ChildValue(it) ==
    IF it.empty
    THEN LET wf == SelectSeq(it.attrs, LAMBDA a : a.wf)
         IN  Object(FromPairs([i \in 1..Len(wf) |->
                 << <<"@">> \o wf[i].key, String(IF wf[i].uok THEN wf[i].val ELSE <<>>) >>]))
    ELSE it.val
DocContent == gstack[1].content
\* The loop ended at end of input with every element closed and the document
\* holding exactly one element and no text outside it.
SingleRootDocument ==
    /\ pc = "done"
    /\ fin.event = "Eof"
    /\ fin.open = 0
    /\ Len(ElemItems(DocContent)) = 1
    /\ TextItems(DocContent) = <<>>

\* C1: decoding a well-formed document whose single root element, closed by an
\* end tag, is named r returns the one-entry map {r: converted value of the root}.
C1_RootKeyedByName ==
    (SingleRootDocument /\ ~ElemItems(DocContent)[1].empty)
        => result = Ok(Object(<< <<ElemItems(DocContent)[1].name,
                                   ElemItems(DocContent)[1].val>> >>))

\* C2: an element closed with k children named c and no text events maps c to the
\* child's converted value when k = 1 and to the list of the k converted values,
\* in document order, when k >= 2, whatever other children lie between them.
C2_DuplicateSiblingMerge ==
    (last.closed /\ TextItems(last.content) = <<>>)
        => \A c \in {it.name : it \in {last.content[i] : i \in 1..Len(last.content)}} :
              LET occ == NamedItems(last.content, c)
              IN  MapGet(last.val.m, c) =
                     IF Len(occ) = 1 THEN ChildValue(occ[1])
                     ELSE Array([i \in 1..Len(occ) |-> ChildValue(occ[i])])

\* C3: an element closed with no attributes, no child elements and non-whitespace
\* text T has the bare string T as its whole converted value.
C3_TextOnlyLeafIsBareText ==
    (/\ last.closed
     /\ last.attrs = <<>>
     /\ ElemItems(last.content) = <<>>
     /\ NonWsTexts(last.content) # <<>>)
        => last.val = String(NonWsTexts(last.content)[Len(NonWsTexts(last.content))].s)

\* C4: the map of an element closed by an end tag holds "@"+k with the
\* attribute's value for every attribute k of its start tag; with non-whitespace
\* text T and no child elements it holds besides only "#text" -> T; with no text
\* and no child elements it holds exactly the @-keys.
C4_AttributesAndText ==
    last.closed =>
        /\ last.val.k = "Object"
        /\ TagAttrs(last.attrs) \subseteq MapPairs(last.val.m)
        /\ (ElemItems(last.content) = <<>> /\ NonWsTexts(last.content) # <<>>)
              => MapPairs(last.val.m) = TagAttrs(last.attrs) \cup
                    {<<TextKey, String(NonWsTexts(last.content)[Len(NonWsTexts(last.content))].s)>>}
        /\ (ElemItems(last.content) = <<>> /\ NonWsTexts(last.content) = <<>>)
              => MapPairs(last.val.m) = TagAttrs(last.attrs)

\* C4 witness: an element with attributes and non-whitespace text was closed.
C4_Witness ==
    /\ last.closed
    /\ TagAttrs(last.attrs) # {}
    /\ ElemItems(last.content) = <<>>
    /\ NonWsTexts(last.content) # <<>>
    /\ MapContains(last.val.m, TextKey)

\* C5: an element with no attributes, text or children converts to the empty map
\* whether written as a start/end pair or self-closing: the document <e/> decodes
\* to {"e": {}}, and a self-closing child appears as a key of its parent's map.
C5_EmptyElement ==
    /\ (last.closed /\ last.attrs = <<>> /\ last.content = <<>>)
          => last.val = Object(MapNew)
    /\ (/\ SingleRootDocument
        /\ ElemItems(DocContent)[1].empty
        /\ ElemItems(DocContent)[1].attrs = <<>>)
          => result = Ok(Object(<< <<ElemItems(DocContent)[1].name, Object(MapNew)>> >>))
    /\ last.closed
          => \A i \in 1..Len(last.content) :
                (last.content[i].t = "elem" /\ last.content[i].empty)
                    => MapContains(last.val.m, last.content[i].name)

\* C8: whenever the tokenizer reports an error, whatever came before it, decode
\* returns an error and no tree value.
C8_ErrorNeverReturnsTree ==
    fin.event = "Err" => (result.kind = "Err" /\ result # Ok(root))

\* C8 witness: the error came after a top-level element had been closed.
C8_Witness ==
    /\ fin.event = "Err"
    /\ root # None
    /\ result.kind = "Err"

\* C9: at end of input decode fails with the empty-document error when no root
\* value was captured -- the input was empty, held only text or comments, or no
\* top-level element was closed -- and returns the root value exactly when one
\* was captured.
TopLevelClosed == \E i \in 1..Len(DocContent) : DocContent[i].t = "elem" /\ ~DocContent[i].empty
C9_EmptyDocument ==
    fin.event = "Eof" =>
        /\ root = None => result = Err("Empty XML document")
        /\ root # None => result = Ok(root)
        /\ ~TopLevelClosed => result = Err("Empty XML document")

\* The kinds of step of the event loop, told by the history of open elements.
StartStep == Len(gstack') > Len(gstack)
EndStep == pc' = "reading" /\ Len(gstack') < Len(gstack)

\* C14: the root slot is assigned only by an End event that leaves the stack
\* empty; an End event processed while an enclosing element is open inserts the
\* closed value into the enclosing element's map under the closed element's name
\* and leaves the root slot alone, whatever text the enclosing element has seen.
C14_RootCapture ==
    [][/\ (root' # root) => (EndStep /\ stack' = <<>>)
       /\ (EndStep /\ stack' # <<>>)
             => (/\ root' = root
                 /\ current_value'.k = "Object"
                 /\ MapContains(current_value'.m, GTop.name)
                 /\ LET held == MapGet(current_value'.m, GTop.name)
                    IN  IF held.k = "Array" THEN held.a[Len(held.a)] = last'.val
                        ELSE held = last'.val)]_vars

\* The child elements that were closed by an end tag.
ClosedKids(content) == SelectSeq(content, LAMBDA it : it.t = "elem" /\ ~it.empty)

\* C15: an element closed with non-whitespace text and at least one child element
\* (closed by its end tag), the text before or after the children, has a value
\* that keeps every child's key and has no "#text" entry.
C15_MixedContentLosesText ==
    (/\ last.closed
     /\ NonWsTexts(last.content) # <<>>
     /\ ClosedKids(last.content) # <<>>)
        => /\ ~MapContains(last.val.m, TextKey)
           /\ \A i \in 1..Len(ClosedKids(last.content)) :
                 MapContains(last.val.m, ClosedKids(last.content)[i].name)

LastNonWsText(content) == NonWsTexts(content)[Len(NonWsTexts(content))].s

\* C16: while an element without child elements is open, the current value is
\* the empty map until a non-whitespace text arrives and from then on the latest
\* non-whitespace text alone (whitespace-only text changes nothing, nothing is
\* concatenated); when it is closed that text is what is recorded as its text.
C16_LastTextWins ==
    /\ (pc = "reading" /\ Len(gstack) > 1 /\ ElemItems(GTop.content) = <<>>)
          => current_value = IF NonWsTexts(GTop.content) = <<>> THEN Object(MapNew)
                             ELSE String(LastNonWsText(GTop.content))
    /\ (last.closed /\ ElemItems(last.content) = <<>> /\ NonWsTexts(last.content) # <<>>)
          => MapGet(last.val.m, TextKey) = String(LastNonWsText(last.content))

\* C16 witness: an element was closed after two different non-whitespace texts
\* and a whitespace-only text, and holds the later non-whitespace one.
C16_Witness ==
    /\ last.closed
    /\ ElemItems(last.content) = <<>>
    /\ Len(NonWsTexts(last.content)) >= 2
    /\ NonWsTexts(last.content)[1].s # LastNonWsText(last.content)
    /\ Len(TextItems(last.content)) > Len(NonWsTexts(last.content))
    /\ MapGet(last.val.m, TextKey) = String(LastNonWsText(last.content))

\* old and new are the same value, but for the entry at key when they are maps.
UnchangedExceptAt(old, new, key) ==
    IF old.k = "Object"
    THEN /\ new.k = "Object"
         /\ MapKeys(new.m) \ {key} = MapKeys(old.m) \ {key}
         /\ \A k \in MapKeys(old.m) \ {key} : MapGet(new.m, k) = MapGet(old.m, k)
    ELSE new = old

\* C17: the stack depth is the number of Start events minus the number of End
\* events processed; frame i is the one pushed by the Start event of the i-th
\* open element; an End event pops the frame of its Start event, after which the
\* current attributes are those current just before that Start event and the
\* parent's value is unchanged but at the key that is the closed element's name.
C17_FrameRestoration ==
    /\ [](pc = "reading" =>
            /\ Len(stack) = Len(gstack) - 1
            /\ \A i \in 1..Len(stack) :
                  /\ stack[i].name = gstack[i + 1].name
                  /\ stack[i].attrs = gstack[i + 1].pattrs
                  /\ stack[i].value = gstack[i + 1].pvalue)
    /\ [][/\ StartStep => (Len(stack') = Len(stack) + 1)
          /\ EndStep => (/\ Len(stack') = Len(stack) - 1
                         /\ current_attrs' = GTop.pattrs
                         /\ UnchangedExceptAt(GTop.pvalue, current_value', GTop.name))
          /\ (pc' = "reading" /\ ~StartStep /\ ~EndStep) => (stack' = stack)]_vars

\* C17 witness: a child with attributes was closed inside a parent that has
\* none and already holds another child; the parent's attribute set is current
\* again and the parent's value holds both children and no attribute key.
C17_Witness ==
    /\ pc = "reading"
    /\ Len(stack) = 1
    /\ last.closed
    /\ last.depth = 1
    /\ TagAttrs(last.attrs) # {}
    /\ current_attrs = MapNew
    /\ current_value.k = "Object"
    /\ MapKeys(current_value.m) = {KeyC, KeyD}

---------------------------------------------------------------------------
(* Properties of dict_to_xml_str, stated over the events written *)

XmlDeclaration ==
    Event("Decl", <<>>,
          <<Attr(<<"v", "e", "r", "s", "i", "o", "n">>, <<"1", ".", "0">>),
            Attr(<<"e", "n", "c", "o", "d", "i", "n", "g">>, <<"u", "t", "f", "-", "8">>)>>,
          TextBad)

\* The names of the elements written outside every other element, in order.
RECURSIVE TopLevelNames(_, _)
TopLevelNames(events, depth) ==
    IF events = <<>> THEN <<>>
    ELSE LET e == Head(events)
             here == IF depth = 0 THEN <<e.name>> ELSE <<>>
         IN  IF e.t = "Start" THEN here \o TopLevelNames(Tail(events), depth + 1)
             ELSE IF e.t = "Empty" THEN here \o TopLevelNames(Tail(events), depth)
             ELSE IF e.t = "End" THEN TopLevelNames(Tail(events), depth - 1)
             ELSE TopLevelNames(Tail(events), depth)

\* A root {r: {"@a1": s1, ..., "@an": sn, "#text": t}}: string attribute values
\* and a non-whitespace text t.
AttrTextRoot ==
    /\ Len(value.m) = 1
    /\ value.m[1][2].k = "Object"
    /\ MapContains(value.m[1][2].m, TextKey)
    /\ \A i \in 1..Len(value.m[1][2].m) :
          LET key == value.m[1][2].m[i][1]
              v == value.m[1][2].m[i][2]
          IN  /\ v.k = "String"
              /\ IF key = TextKey THEN HasNonWhitespace(v.s)
                 ELSE Len(key) >= 2 /\ key[1] = "@" /\ key[2] # "@"

\* C6: for v = {r: {"@a1": s1, ..., "@an": sn, "#text": t}} the encoder writes the
\* declaration and <r a1="s1" ...>t</r>, and decoding that text returns exactly v.
C6_AttributeRoundTrip ==
    (pc = "done" /\ AttrTextRoot) =>
        LET r == value.m[1][1]
            m == value.m[1][2].m
            ats == SelectSeq(m, LAMBDA e : e[1] # TextKey)
        IN  /\ eresult = Ok(<<XmlDeclaration,
                              StartEv(r, [i \in 1..Len(ats) |-> Attr(Tail(ats[i][1]), ats[i][2].s)]),
                              TextEv(TextOk(MapGet(m, TextKey).s)),
                              EndEv(r)>>)
            /\ result = Ok(value)

\* C7: a value that is not a map is written as an element holding the scalar as
\* its text: for a root {tag: Text(s)}, the start tag, the text s, the end tag.
C7_ScalarLeafKeepsText ==
    (/\ epc = "done"
     /\ Len(value.m) = 1
     /\ value.m[1][2].k = "String")
        => out = <<XmlDeclaration,
                   StartEv(value.m[1][1], <<>>),
                   TextEv(TextOk(value.m[1][2].s)),
                   EndEv(value.m[1][1])>>

\* C10: the first write is the XML declaration (version 1.0, encoding utf-8) and
\* it is written once; it is followed by exactly one top-level element per key of
\* the root, in the map's order; several keys give several top-level elements and
\* no error; no key gives the declaration alone.
C10_DeclarationThenOneElementPerKey ==
    /\ epc = "start" => out = <<>>
    /\ out # <<>> => (out[1] = XmlDeclaration /\ \A i \in 2..Len(out) : out[i].t # "Decl")
    /\ epc = "done" =>
          /\ eresult = Ok(out)
          /\ TopLevelNames(Tail(out), 0) = [i \in 1..Len(value.m) |-> value.m[i][1]]
          /\ value.m = <<>> => out = <<XmlDeclaration>>

\* C10 witness: a root with two keys was written as two top-level elements.
C10_Witness ==
    /\ epc = "done"
    /\ Len(value.m) = 2
    /\ Len(TopLevelNames(Tail(out), 0)) = 2
    /\ eresult.kind = "Ok"

---------------------------------------------------------------------------
(* The elements written, read as a tree *)

\* The index of the End event that closes the element opened before index j,
\* depth elements being open at j; 0 when there is none.
RECURSIVE CloseIndex(_, _, _)
CloseIndex(ev, j, depth) ==
    IF j > Len(ev) THEN 0
    ELSE IF ev[j].t = "Start" THEN CloseIndex(ev, j + 1, depth + 1)
    ELSE IF ev[j].t = "End"
         THEN IF depth = 1 THEN j ELSE CloseIndex(ev, j + 1, depth - 1)
    ELSE CloseIndex(ev, j + 1, depth)

\* The elements written between lo and hi outside one another, in order, each
\* as <<index of its Start or Empty event, index of its last event>>.
RECURSIVE KidSpans(_, _, _)
KidSpans(ev, lo, hi) ==
    IF lo > hi THEN <<>>
    ELSE IF ev[lo].t = "Empty" THEN << <<lo, lo>> >> \o KidSpans(ev, lo + 1, hi)
    ELSE IF ev[lo].t = "Start"
         THEN LET j == CloseIndex(ev, lo + 1, 1)
              IN  IF j = 0 THEN << <<lo, 0>> >>
                  ELSE << <<lo, j>> >> \o KidSpans(ev, j + 1, hi)
    ELSE KidSpans(ev, lo + 1, hi)

\* The Text events written directly inside the element that spans i..j.
DirectTexts(ev, i, j) ==
    LET spans == KidSpans(ev, i + 1, j - 1)
    IN  {p \in (i + 1)..(j - 1) :
            /\ ev[p].t = "Text"
            /\ \A n \in 1..Len(spans) : p < spans[n][1] \/ p > spans[n][2]}

AtEntries(m) == SelectSeq(m, LAMBDA e : e[1] # <<>> /\ e[1][1] = "@")
OtherEntries(m) == SelectSeq(m, LAMBDA e : ~(e[1] # <<>> /\ e[1][1] = "@") /\ e[1] # TextKey)

\* The child elements a map's other keys call for, as <<name, value>>, in key
\* order: for a list one per entry, in the list's order.
RECURSIVE ExpectedKids(_)
ExpectedKids(entries) ==
    IF entries = <<>> THEN <<>>
    ELSE LET key == entries[1][1]
             v == entries[1][2]
         IN  (IF v.k = "Array" THEN [i \in 1..Len(v.a) |-> <<key, v.a[i]>>]
              ELSE << <<key, v>> >>)
             \o ExpectedKids(Tail(entries))

IsProperSuffix(s, key) ==
    Len(s) < Len(key) /\ s = SubSeq(key, Len(key) - Len(s) + 1, Len(key))

\* The element written at i..j for the map v carries one attribute per @-key, in
\* key order; its "#text", when v has one, is the first thing written inside it
\* and its only direct text; then come the child elements its other keys call
\* for, in that order and number, each written from its value in the same way.
RECURSIVE ElementFollows(_, _, _, _)
ElementFollows(v, ev, i, j) ==
    IF v.k # "Object" THEN TRUE
    ELSE LET ats == AtEntries(v.m)
             kids == ExpectedKids(OtherEntries(v.m))
             spans == KidSpans(ev, i + 1, j - 1)
         IN  /\ ev[i].t \in {"Start", "Empty"}
             /\ j >= i
             /\ Len(ev[i].attrs) = Len(ats)
             /\ \A a \in 1..Len(ats) : IsProperSuffix(ev[i].attrs[a].key, ats[a][1])
             /\ IF MapContains(v.m, TextKey)
                THEN /\ j > i + 1
                     /\ DirectTexts(ev, i, j) = {i + 1}
                     /\ MapGet(v.m, TextKey).k = "String"
                            => ev[i + 1].text = TextOk(MapGet(v.m, TextKey).s)
                ELSE DirectTexts(ev, i, j) = {}
             /\ Len(spans) = Len(kids)
             /\ \A n \in 1..Len(kids) :
                   /\ ev[spans[n][1]].name = kids[n][1]
                   /\ ElementFollows(kids[n][2], ev, spans[n][1], spans[n][2])

\* The top-level elements written, one per key of the root.
RootSpans == KidSpans(out, 2, Len(out))

\* C11: when encode has returned, every map written as an element has all its
\* @-keys as attributes of the opening tag, then its #text, then its other keys
\* as child elements in key order; a child key holding a list of n entries gives
\* exactly n consecutive siblings of that name, the i-th from the i-th entry, and
\* no element for the list itself.
C11_ElementOrderAndListExpansion ==
    epc = "done" =>
        /\ Len(RootSpans) = Len(value.m)
        /\ \A n \in 1..Len(value.m) :
              ElementFollows(value.m[n][2], out, RootSpans[n][1], RootSpans[n][2])

\* C11 witness: a root element with an attribute, a text and a child key that
\* holds a two-entry list was written with two child elements.
C11_Witness ==
    /\ epc = "done"
    /\ Len(value.m) = 1
    /\ value.m[1][2].k = "Object"
    /\ AtEntries(value.m[1][2].m) # <<>>
    /\ MapContains(value.m[1][2].m, TextKey)
    /\ MapContains(value.m[1][2].m, KeyC)
    /\ MapGet(value.m[1][2].m, KeyC).k = "Array"
    /\ Len(MapGet(value.m[1][2].m, KeyC).a) = 2
    /\ Len(KidSpans(out, RootSpans[1][1] + 1, RootSpans[1][2] - 1)) = 2

\* The native value holds, at some depth, a value that is none of null, bool,
\* number, string, list and dict, or a dict key that is no string.
RECURSIVE HasUnsupported(_)
HasUnsupported(obj) ==
    IF obj.t = "list" THEN \E i \in 1..Len(obj.items) : HasUnsupported(obj.items[i])
    ELSE IF obj.t = "dict"
         THEN \E i \in 1..Len(obj.entries) :
                 obj.entries[i][1].t # "str" \/ HasUnsupported(obj.entries[i][2])
    ELSE obj.t \notin {"none", "bool", "int", "float", "str"}

\* C12: when the dict given to encode holds an unsupported value or a key that
\* is no string at any depth, encode returns an error, and it has written
\* nothing, not even the declaration, when it fails.
C12_UnsupportedFailsBeforeOutput ==
    /\ HasUnsupported(native) => (epc \in {"convert", "failed"} /\ out = <<>>)
    /\ epc = "failed" => (eresult.kind = "Err" /\ out = <<>>)

\* C12 witness: encode failed on a function held in a dict inside a list.
C12_Witness ==
    /\ epc = "failed"
    /\ eresult.kind = "Err"
    /\ out = <<>>
    /\ native.entries[1][2].t = "list"
    /\ native.entries[1][2].items[1].t = "dict"
    /\ HasUnsupported(native.entries[1][2].items[1])

\* Every empty map written as the element i..j, or inside it, is one Empty event
\* without attributes.
RECURSIVE EmptyMapsSelfClose(_, _, _, _)
EmptyMapsSelfClose(v, ev, i, j) ==
    IF v = Object(MapNew) THEN j = i /\ ev[i].t = "Empty" /\ ev[i].attrs = <<>>
    ELSE IF v.k # "Object" THEN TRUE
    ELSE LET kids == ExpectedKids(OtherEntries(v.m))
             spans == KidSpans(ev, i + 1, j - 1)
         IN  /\ Len(spans) = Len(kids)
             /\ \A n \in 1..Len(kids) :
                   EmptyMapsSelfClose(kids[n][2], ev, spans[n][1], spans[n][2])

\* C13: an element whose value is the empty map is written as a single
\* self-closing tag, with no end tag of its own; encoding {"e": {}} gives the
\* declaration followed by <e/>.
C13_EmptyMapSelfCloses ==
    epc = "done" =>
        /\ Len(RootSpans) = Len(value.m)
        /\ \A n \in 1..Len(value.m) :
              EmptyMapsSelfClose(value.m[n][2], out, RootSpans[n][1], RootSpans[n][2])
        /\ (Len(value.m) = 1 /\ value.m[1][2] = Object(MapNew))
              => out = <<XmlDeclaration, EmptyEv(value.m[1][1], <<>>)>>

\* C13 witness: {"d": {}} was written as the declaration and <d/>.
C13_Witness ==
    /\ epc = "done"
    /\ value = Object(<< <<KeyD, Object(MapNew)>> >>)
    /\ out = <<XmlDeclaration, EmptyEv(KeyD, <<>>)>>

\* The tree variant a native value stands for, and the native variant of a
\* native value (an int and a float are both numbers).
TreeVariant(obj) ==
    CASE obj.t = "none" -> "Null"
      [] obj.t = "bool" -> "Bool"
      [] obj.t \in {"int", "float"} -> "Number"
      [] obj.t = "str" -> "String"
      [] obj.t = "list" -> "Array"
      [] obj.t = "dict" -> "Object"
      [] OTHER -> "none"
NativeVariant(obj) == IF obj.t = "int" THEN "float" ELSE obj.t

RECURSIVE SameVariants(_, _)
SameVariants(obj, v) ==
    /\ v.k = TreeVariant(obj)
    /\ obj.t = "list" =>
          /\ Len(v.a) = Len(obj.items)
          /\ \A i \in 1..Len(obj.items) : SameVariants(obj.items[i], v.a[i])
    /\ obj.t = "dict" =>
          \A i \in 1..Len(obj.entries) :
              /\ MapContains(v.m, obj.entries[i][1].s)
              /\ SameVariants(obj.entries[i][2], MapGet(v.m, obj.entries[i][1].s))

RECURSIVE SameNativeVariants(_, _)
SameNativeVariants(a, b) ==
    /\ NativeVariant(a) = NativeVariant(b)
    /\ a.t = "list" =>
          /\ Len(a.items) = Len(b.items)
          /\ \A i \in 1..Len(a.items) : SameNativeVariants(a.items[i], b.items[i])
    /\ a.t = "dict" =>
          \A i \in 1..Len(a.entries) :
              \E j \in 1..Len(b.entries) :
                  /\ b.entries[j][1] = a.entries[i][1]
                  /\ SameNativeVariants(a.entries[i][2], b.entries[j][2])

\* C18: the tree value built from a supported native value has, at every depth,
\* the variant of the native value it was built from (null -> Null, bool -> Bool,
\* number -> Number, string -> Text, list -> List, dict -> Map), and converting
\* it back gives a native value of the same variants.
C18_AdaptersKeepVariants ==
    epc \in {"start", "emit", "done"} =>
        /\ SameVariants(native, value)
        /\ SameNativeVariants(native, ValueToPyobject(value))

\* What the events written leave open: ok is whether every End event closed the
\* innermost open element and every Text event was inside one; open the names of
\* the elements still open, outermost first.
RECURSIVE Nest(_, _)
Nest(events, open) ==
    IF events = <<>> THEN [ok |-> TRUE, open |-> open]
    ELSE LET e == Head(events)
         IN  IF e.t = "Start" THEN Nest(Tail(events), Append(open, e.name))
             ELSE IF e.t = "End"
                  THEN IF open # <<>> /\ open[Len(open)] = e.name
                       THEN Nest(Tail(events), SubSeq(open, 1, Len(open) - 1))
                       ELSE [ok |-> FALSE, open |-> open]
             ELSE IF e.t = "Text"
                  THEN IF open # <<>> THEN Nest(Tail(events), open)
                       ELSE [ok |-> FALSE, open |-> open]
             ELSE Nest(Tail(events), open)

\* C19: the writes encode makes are well nested at every moment (an End event
\* closes the innermost open element and carries its name, a Text event lies
\* inside an element, an Empty event opens nothing), every element opened has
\* been closed when encode returns, and encode always returns.
C19_WellNestedOutput ==
    /\ [](/\ Nest(out, <<>>).ok
          /\ epc = "done" => Nest(out, <<>>).open = <<>>)
    /\ <>(epc \in {"done", "failed"})

\* C19 witness: encode returned after writing an element inside an element, a
\* text and a self-closing element.
C19_Witness ==
    /\ epc = "done"
    /\ Nest(out, <<>>).open = <<>>
    /\ \E i \in 1..Len(out) : out[i].t = "Text"
    /\ \E i \in 1..Len(out) : out[i].t = "Empty"
    /\ \E i \in 1..Len(out) : \E j \in 1..Len(out) :
          /\ i < j
          /\ out[i].t = "Start"
          /\ out[j].t = "Start"
          /\ CloseIndex(out, i + 1, 1) > j

====
